---- MODULE Spec2Model ----
(***************************************************************************)
(* Model of the dataset refresh job of update_dbacks_statcast.py: the      *)
(* update gate, the fetch window, the merge (partition, concatenate, sort, *)
(* deduplicate), and the backup / write / verify / commit-or-restore       *)
(* protocol on the canonical CSV file and its sibling backup files.        *)
(*                                                                         *)
(* A date string 'YYYY-MM-DD' is the tuple <<Y, M, D>>; a datetime is its  *)
(* proleptic Gregorian ordinal (day 1 = 0001-01-01).  Strptime and         *)
(* Strftime convert between the two.                                       *)
(***************************************************************************)
EXTENDS Integers, Sequences, FiniteSets, TLC

VARIABLES
    today,           \* date of datetime.now() for this run, as a date string
    canonical,       \* content at csv_file, or NoFile
    backups,         \* backup name (timestamp) -> content, the *_backup_*.csv files
    pc,              \* position of main()
    existing_rows,   \* main: existing_rows
    last_game_date,  \* main: last_game_date (None or a date string)
    start_date,      \* main: start_date
    end_date,        \* main: end_date
    updated_data,    \* main: updated_data
    final_data,      \* main: final_data
    backup_file,     \* main: backup_file (Unbound while not in locals())
    is_valid,        \* main: is_valid
    verification_msg, \* main: verification_msg
    rows_added,      \* main: rows_added
    error,           \* the first step of this run that raised ("none" if none)
    outcome,         \* how the run ended
    pre,             \* content at csv_file when the run began
    preBackups,      \* the backup files when the run began
    run,             \* the number of this run of the script
    prevOutcome,     \* how the run before this one ended ("none" if none)
    killedAt,        \* the position at which the process was killed ("none" if not)
    other            \* a second process running main(): its position and locals

vars == <<today, canonical, backups, pc, existing_rows, last_game_date,
          start_date, end_date, updated_data, final_data, backup_file,
          is_valid, verification_msg, rows_added, error, outcome, pre,
          preBackups, run, prevOutcome, killedAt, other>>

fsvars == <<canonical, backups>>
locals == <<existing_rows, last_game_date, start_date, end_date,
            updated_data, final_data, backup_file, is_valid,
            verification_msg, rows_added>>

\* A file's content: a CSV with a header (cols) and rows, an unparseable
\* file, or no file at the path.
NoFile == [kind |-> "none", cols |-> {}, rows |-> <<>>]
Garbage == [kind |-> "garbage", cols |-> {}, rows |-> <<>>]
Csv(cols, rows) == [kind |-> "csv", cols |-> cols, rows |-> rows]

\* A data frame: its columns and its rows.
Frame(cols, rows) == [cols |-> cols, rows |-> rows]
NoFrame == Frame({}, <<>>)

\* Python's None for last_game_date; the name backup_file before line 198.
None == <<>>
Unbound == 0

\* no second process
OtherOff ==
    [pc |-> "idle", backup_file |-> Unbound, final_data |-> NoFrame,
     error |-> "none"]

----------------------------------------------------------------------------
(* Calendar: datetime.strptime(s, '%Y-%m-%d'), strftime('%Y-%m-%d').       *)

IsLeap(y) == (y % 4 = 0) /\ ((y % 100 # 0) \/ (y % 400 = 0))

DaysInMonth(y, m) ==
    IF m = 2 THEN (IF IsLeap(y) THEN 29 ELSE 28)
    ELSE IF m \in {4, 6, 9, 11} THEN 30 ELSE 31

RECURSIVE DaysBeforeMonth(_, _)
DaysBeforeMonth(y, m) ==
    IF m = 1 THEN 0 ELSE DaysBeforeMonth(y, m - 1) + DaysInMonth(y, m - 1)

DaysBeforeYear(y) ==
    LET p == y - 1 IN p * 365 + (p \div 4) - (p \div 100) + (p \div 400)

\* strptime: the ordinal of a date string
Strptime(s) == DaysBeforeYear(s[1]) + DaysBeforeMonth(s[1], s[2]) + s[3]

\* strftime: the date string of an ordinal
Strftime(n) ==
    LET n0   == n - 1
        n400 == n0 \div 146097
        r400 == n0 % 146097
        n100 == r400 \div 36524
        r100 == r400 % 36524
        n4   == r100 \div 1461
        r4   == r100 % 1461
        n1   == r4 \div 365
        r1   == r4 % 365
        year == n400 * 400 + 1 + n100 * 100 + n4 * 4 + n1
    IN  IF n1 = 4 \/ n100 = 4 THEN <<year - 1, 12, 31>>
        ELSE LET m == CHOOSE k \in 1..12 :
                        /\ DaysBeforeMonth(year, k) <= r1
                        /\ r1 < DaysBeforeMonth(year, k) + DaysInMonth(year, k)
             IN  <<year, m, r1 - DaysBeforeMonth(year, m) + 1>>

\* a > b on two 'YYYY-MM-DD' strings (character order)
StrGreater(a, b) ==
    \/ a[1] > b[1]
    \/ a[1] = b[1] /\ a[2] > b[2]
    \/ a[1] = b[1] /\ a[2] = b[2] /\ a[3] > b[3]

----------------------------------------------------------------------------
(* Rows and the helper functions of the script.                            *)

KeyColumns == {"game_pk", "at_bat_number", "pitch_number"}
RequiredColumns == {"pitch_type", "game_date", "player_name", "batter", "pitcher"}
AllColumns == RequiredColumns \cup KeyColumns

MIN_DAYS_BETWEEN_UPDATES == 7
LOOKBACK_DAYS == 14
MinRowCount == 100
KeepBackups == 2

Row(d, pk, ab, pn, v) ==
    [game_date |-> d, game_pk |-> pk, at_bat_number |-> ab,
     pitch_number |-> pn, v |-> v]

\* the composite key of drop_duplicates(subset=[...])
Key(r) == <<r.game_pk, r.at_bat_number, r.pitch_number>>

\* pd.read_csv succeeds on a file
Readable(f) == f.kind = "csv"

\* count_csv_rows(filepath)
count_csv_rows(f) == IF Readable(f) THEN Len(f.rows) ELSE 0

MaxOrd(S) == CHOOSE x \in S : \A y \in S : y <= x

\* get_last_game_date(filepath)
get_last_game_date(f) ==
    IF Readable(f) /\ "game_date" \in f.cols /\ f.rows # <<>>
    THEN Strftime(MaxOrd({Strptime(f.rows[i].game_date) : i \in 1..Len(f.rows)}))
    ELSE None

\* a gate that wants more than min_days
should_update_strict(last_update_date, min_days, now) ==
    IF last_update_date = None THEN TRUE
    ELSE Strptime(now) - Strptime(last_update_date) > min_days

\* should_update(last_update_date, min_days_between_updates), now on `now`
should_update(last_update_date, min_days, now) ==
    IF last_update_date = None THEN TRUE
    ELSE LET days_since_update == Strptime(now) - Strptime(last_update_date)
         IN  days_since_update >= min_days

\* get_season_start_date()
get_season_start_date(now) == <<now[1], 3, 20>>

\* pd.to_datetime accepts the date string: a month of the calendar and a
\* day of that month
ParsesAsDate(d) ==
    /\ d[1] \in 1..9999
    /\ d[2] \in 1..12
    /\ d[3] >= 1 /\ d[3] <= DaysInMonth(d[1], d[2])

\* a verifier that does not look at the dates
verify_csv_file_no_dates(f) ==
    IF ~Readable(f) THEN <<FALSE, "Verification failed">>
    ELSE IF f.rows = <<>> THEN <<FALSE, "File is empty">>
    ELSE IF ~(RequiredColumns \subseteq f.cols)
         THEN <<FALSE, "Missing required columns">>
    ELSE IF Len(f.rows) < MinRowCount THEN <<FALSE, "Suspiciously low row count">>
    ELSE <<TRUE, "File verified successfully">>

\* a verifier that does not look at the columns
verify_csv_file_no_columns(f) ==
    IF ~Readable(f) THEN <<FALSE, "Verification failed">>
    ELSE IF f.rows = <<>> THEN <<FALSE, "File is empty">>
    ELSE IF "game_date" \in f.cols
            /\ \E i \in 1..Len(f.rows) : ~ParsesAsDate(f.rows[i].game_date)
         THEN <<FALSE, "Invalid game_date format">>
    ELSE IF Len(f.rows) < MinRowCount THEN <<FALSE, "Suspiciously low row count">>
    ELSE <<TRUE, "File verified successfully">>

\* verify_csv_file(filepath): <<is_valid, reason>>
verify_csv_file(f) ==
    IF ~Readable(f) THEN <<FALSE, "Verification failed">>
    ELSE IF f.rows = <<>> THEN <<FALSE, "File is empty">>
    ELSE IF ~(RequiredColumns \subseteq f.cols)
         THEN <<FALSE, "Missing required columns">>
    ELSE IF "game_date" \in f.cols
            /\ \E i \in 1..Len(f.rows) : ~ParsesAsDate(f.rows[i].game_date)
         THEN <<FALSE, "Invalid game_date format">>
    ELSE IF Len(f.rows) < MinRowCount THEN <<FALSE, "Suspiciously low row count">>
    ELSE <<TRUE, "File verified successfully">>

----------------------------------------------------------------------------
(* The fetch window (main, lines 127-138) and the merge (lines 158-191).   *)

Max(a, b) == IF a >= b THEN a ELSE b

\* a window that is not clamped to the season start
WindowStart_NoClamp(lgd, now) ==
    IF lgd # None THEN Strftime(Strptime(lgd) - LOOKBACK_DAYS)
    ELSE get_season_start_date(now)

\* start_date of main, lines 127-136
WindowStart(lgd, now) ==
    IF lgd # None
    THEN LET lookback_date == Strptime(lgd) - LOOKBACK_DAYS
         IN  Strftime(Max(lookback_date, Strptime(get_season_start_date(now))))
    ELSE get_season_start_date(now)

\* end_date of main, line 138
WindowEnd(now) == Strftime(Strptime(now))

\* pd.to_datetime(df['game_date']) and .dt.strftime('%Y-%m-%d') on a column
ToDatetime(rows) ==
    [i \in 1..Len(rows) |-> [rows[i] EXCEPT !.game_date = Strptime(@)]]
DtStrftime(rows) ==
    [i \in 1..Len(rows) |-> [rows[i] EXCEPT !.game_date = Strftime(@)]]

\* existing_data[existing_data['game_date'] < cutoff_date], lines 162-166
OldData(rows, start) ==
    LET cutoff_date == Strptime(start)
        Before(r) == r.game_date < cutoff_date
    IN  SelectSeq(ToDatetime(rows), Before)

\* final_data of lines 160-178: old rows before the window, then the fetch
Combine(existing, updated, start, now) ==
    IF StrGreater(start, get_season_start_date(now))
    THEN LET old_data == OldData(existing.rows, start)
         IN  IF old_data # <<>>
             THEN Frame(existing.cols \cup updated.cols,
                        DtStrftime(old_data) \o updated.rows)
             ELSE updated
    ELSE updated

\* order of sort_values(['game_date','game_pk','at_bat_number','pitch_number'])
RowLess(a, b) ==
    \/ a.game_date < b.game_date
    \/ /\ a.game_date = b.game_date
       /\ \/ a.game_pk < b.game_pk
          \/ /\ a.game_pk = b.game_pk
             /\ \/ a.at_bat_number < b.at_bat_number
                \/ /\ a.at_bat_number = b.at_bat_number
                   /\ a.pitch_number < b.pitch_number

\* a sort that leaves the rows as they are
sort_values_none(rows) == rows

\* DataFrame.sort_values on several columns: a stable sort.  Row i goes to
\* the place after the rows that sort before it and the equal rows that
\* precede it.
sort_values(rows) ==
    LET n == Len(rows)
        Before(j, i) ==
            \/ RowLess(rows[j], rows[i])
            \/ ~RowLess(rows[i], rows[j]) /\ j < i
        placed == {<<Cardinality({j \in 1..n : Before(j, i)}) + 1, i>> : i \in 1..n}
    IN  [p \in 1..n |-> rows[(CHOOSE x \in placed : x[1] = p)[2]]]

\* a deduplication that keeps every row
drop_duplicates_none(rows) == rows

\* keep='first': the rows with no earlier row of the same key
drop_duplicates_first(rows) ==
    LET n == Len(rows)
        keep == {i \in 1..n : \A j \in 1..(i - 1) : Key(rows[j]) # Key(rows[i])}
        placed == {<<Cardinality({j \in keep : j <= i}), i>> : i \in keep}
    IN  [p \in 1..Cardinality(keep) |-> rows[(CHOOSE x \in placed : x[1] = p)[2]]]

\* DataFrame.drop_duplicates(subset=key columns, keep='last'): the rows
\* with no later row of the same key, in their order
drop_duplicates(rows) ==
    LET n == Len(rows)
        keep == {i \in 1..n : \A j \in (i + 1)..n : Key(rows[j]) # Key(rows[i])}
        placed == {<<Cardinality({j \in keep : j <= i}), i>> : i \in keep}
    IN  [p \in 1..Cardinality(keep) |-> rows[(CHOOSE x \in placed : x[1] = p)[2]]]

\* lines 181-190: sort on the parsed dates, format them back, deduplicate
SortDedup(frame) ==
    Frame(frame.cols,
          drop_duplicates(DtStrftime(sort_values(ToDatetime(frame.rows)))))

\* the columns lines 181-190 index; a missing one raises KeyError
MergeColumns == {"game_date"} \cup KeyColumns

----------------------------------------------------------------------------
(* The inputs: the run's date, the file found at csv_file, the backup      *)
(* files left by earlier runs, and what pyb.statcast returns.              *)

MaxOldBackups == 4

Block(d, pk, n, v) ==
    [i \in 1..n |-> Row(d, pk, ((i - 1) \div 10) + 1, ((i - 1) % 10) + 1, v)]

Todays == {<<2025, 4, 5>>, <<2025, 6, 7>>, <<2025, 6, 8>>, <<2025, 6, 15>>, <<2026, 3, 1>>}

\* A season file whose last game is 2025-06-01 (60 rows before 2025-05-18),
\* a file with games before and after March 20, a three-row file, a file
\* with only its header, a file without the game_date column, an
\* unparseable file, and no file.
PersistedFiles ==
    { NoFile,
      Garbage,
      Csv(AllColumns \ {"game_date"}, Block(<<2025, 5, 10>>, 1, 3, 0)),
      Csv(AllColumns, <<>>),
      Csv(AllColumns, Block(<<2025, 5, 10>>, 1, 60, 0) \o Block(<<2025, 6, 1>>, 2, 50, 0)),
      Csv(AllColumns, Block(<<2025, 3, 10>>, 3, 3, 0) \o Block(<<2025, 3, 25>>, 4, 5, 0)),
      Csv(AllColumns, <<Row(<<2025, 5, 10>>, 1, 1, 1, 0), Row(<<2025, 6, 1>>, 2, 1, 1, 0),
                        Row(<<2025, 6, 1>>, 2, 1, 2, 0)>>) }

\* An unsorted fetch that repeats the key (5, 1, 2).
Unsorted ==
    <<Row(<<2025, 6, 5>>, 5, 1, 2, 1), Row(<<2025, 6, 2>>, 4, 1, 1, 1),
      Row(<<2025, 6, 5>>, 5, 1, 1, 1), Row(<<2025, 6, 5>>, 5, 1, 2, 2)>>

FetchResults ==
    { Frame(AllColumns, Block(<<2025, 6, 1>>, 2, 40, 1)),
      Frame(AllColumns, Block(<<2025, 6, 1>>, 2, 39, 1)),
      Frame(AllColumns, Unsorted),
      Frame(AllColumns, Unsorted \o Block(<<2025, 6, 1>>, 2, 40, 1)),
      Frame(AllColumns, <<Row(<<2025, 6, 3>>, 1, 1, 1, 1)>> \o Block(<<2025, 6, 1>>, 2, 40, 1)),
      Frame(AllColumns, Block(<<2025, 3, 25>>, 4, 5, 1) \o Block(<<2025, 4, 1>>, 6, 100, 1)),
      Frame(AllColumns \ {"pitch_type"}, Block(<<2025, 4, 1>>, 6, 100, 1)) }

\* pyb.statcast(start_dt, end_dt) returns games of the window only
InWindow(frame, start, end) ==
    \A i \in 1..Len(frame.rows) :
        /\ ~StrGreater(start, frame.rows[i].game_date)
        /\ ~StrGreater(frame.rows[i].game_date, end)

\* the backup an earlier run left under the timestamp i
OldBackup(i) == Csv(AllColumns, Block(<<2025, 3, 28>>, 9, i, 0))

\* datetime.now().strftime('%Y%m%d_%H%M%S') of this run, later than the
\* timestamps of the backups of earlier runs
Timestamp == MaxOldBackups + run

Init ==
    /\ today \in Todays
    /\ canonical \in PersistedFiles
    /\ \E k \in 0..MaxOldBackups : backups = [i \in 1..k |-> OldBackup(i)]
    /\ pc = "start"
    /\ existing_rows = 0
    /\ last_game_date = None
    /\ start_date = None
    /\ end_date = None
    /\ updated_data = NoFrame
    /\ final_data = NoFrame
    /\ backup_file = Unbound
    /\ is_valid = FALSE
    /\ verification_msg = ""
    /\ rows_added = 0
    /\ error = "none"
    /\ outcome = "running"
    /\ pre = canonical
    /\ preBackups = backups
    /\ run = 1
    /\ prevOutcome = "none"
    /\ killedAt = "none"
    /\ other = OtherOff

ghost == <<today, pre, preBackups, run, prevOutcome, killedAt, other>>

\* f without the key k
Without(f, k) == [x \in DOMAIN f \ {k} |-> f[x]]
\* f with k mapped to v
With(f, k, v) == [x \in DOMAIN f \cup {k} |-> IF x = k THEN v ELSE f[x]]

Exists(f) == f.kind # "none"

----------------------------------------------------------------------------
(* main(), one action per step.  A file operation that can raise either    *)
(* succeeds or raises.  os.rename is that of Windows (the paths of the     *)
(* script): it raises when the destination exists.                         *)

Exit(how) == pc' = "exit" /\ outcome' = how
Raise(step) ==
    /\ pc' = "except"
    /\ error' = (IF error = "none" THEN step ELSE error)
    /\ outcome' = outcome

\* an existence check that lets a run without a file go on
CheckExists_Proceeds ==
    /\ pc = "start"
    /\ pc' = "read" /\ outcome' = outcome
    /\ UNCHANGED <<fsvars, locals, error, ghost>>

\* an existence check that raises into the handler of line 265
CheckExists_Raises ==
    /\ pc = "start"
    /\ IF ~Exists(canonical) THEN Raise("start")
       ELSE pc' = "read" /\ outcome' = outcome /\ error' = error
    /\ UNCHANGED <<fsvars, locals, ghost>>

\* lines 102-105
CheckExists ==
    /\ pc = "start"
    /\ IF ~Exists(canonical) THEN Exit("NoFile")
       ELSE pc' = "read" /\ outcome' = outcome
    /\ UNCHANGED <<fsvars, locals, error, ghost>>

\* lines 107-109
ReadDataset ==
    /\ pc = "read"
    /\ existing_rows' = count_csv_rows(canonical)
    /\ last_game_date' = get_last_game_date(canonical)
    /\ pc' = "gate"
    /\ UNCHANGED <<fsvars, start_date, end_date, updated_data, final_data,
                   backup_file, is_valid, verification_msg, rows_added,
                   error, outcome, ghost>>

\* the test of line 117
GateSkips(lgd, now) ==
    lgd # None /\ ~should_update(lgd, MIN_DAYS_BETWEEN_UPDATES, now)

\* lines 114-121
Gate ==
    /\ pc = "gate"
    /\ IF GateSkips(last_game_date, today) THEN Exit("Skipped")
       ELSE pc' = "window" /\ outcome' = outcome
    /\ UNCHANGED <<fsvars, locals, error, ghost>>

\* lines 123-140
Window ==
    /\ pc = "window"
    /\ start_date' = WindowStart(last_game_date, today)
    /\ end_date' = WindowEnd(today)
    /\ pc' = "fetch"
    /\ UNCHANGED <<fsvars, existing_rows, last_game_date, updated_data,
                   final_data, backup_file, is_valid, verification_msg, rows_added,
                   error, outcome, ghost>>

\* an empty fetch that goes on to the merge
AfterFetch_Proceeds(frame) == pc' = "combine" /\ outcome' = outcome

\* what line 149 does with a fetch that returned: an empty one ends the run
AfterFetch(frame) ==
    IF frame.rows = <<>> THEN Exit("NoData")
    ELSE pc' = "combine" /\ outcome' = outcome

\* lines 142-153
Fetch ==
    /\ pc = "fetch"
    /\ \/ /\ Raise("fetch")
          /\ UNCHANGED updated_data
       \/ /\ \E frame \in FetchResults \cup {NoFrame} :
                /\ InWindow(frame, start_date, end_date)
                /\ updated_data' = frame
                /\ AfterFetch(frame)
          /\ UNCHANGED error
    /\ UNCHANGED <<fsvars, existing_rows, last_game_date, start_date, end_date,
                   final_data, backup_file, is_valid, verification_msg, rows_added,
                   ghost>>

\* a merge that reads any file
CombineRaises_Never(f, start, now) == FALSE

\* lines 158-166 raise: read_csv on an unparseable file, or no game_date
\* column to compare with the cutoff
CombineRaises(f, start, now) ==
    \/ ~Readable(f)
    \/ StrGreater(start, get_season_start_date(now)) /\ "game_date" \notin f.cols

\* lines 155-178
CombineStep ==
    /\ pc = "combine"
    /\ IF CombineRaises(canonical, start_date, today)
       THEN Raise("merge") /\ UNCHANGED final_data
       ELSE /\ final_data' = Combine(Frame(canonical.cols, canonical.rows),
                                     updated_data, start_date, today)
            /\ pc' = "sort"
            /\ UNCHANGED <<error, outcome>>
    /\ UNCHANGED <<fsvars, existing_rows, last_game_date, start_date, end_date,
                   updated_data, backup_file, is_valid, verification_msg, rows_added,
                   ghost>>

\* lines 180-194
SortStep ==
    /\ pc = "sort"
    /\ IF ~(MergeColumns \subseteq final_data.cols)
       THEN Raise("merge") /\ UNCHANGED final_data
       ELSE /\ final_data' = SortDedup(final_data)
            /\ pc' = "stage"
            /\ UNCHANGED <<error, outcome>>
    /\ UNCHANGED <<fsvars, existing_rows, last_game_date, start_date, end_date,
                   updated_data, backup_file, is_valid, verification_msg, rows_added,
                   ghost>>

\* a staging that moves csv_file away and keeps no backup of it
Stage_LosesFile ==
    /\ pc = "stage"
    /\ backup_file' = Timestamp
    /\ canonical' = NoFile
    /\ pc' = "write"
    /\ UNCHANGED <<backups, error, outcome>>
    /\ UNCHANGED <<existing_rows, last_game_date, start_date, end_date,
                   updated_data, final_data, is_valid, verification_msg,
                   rows_added, ghost>>

\* lines 196-201
Stage ==
    /\ pc = "stage"
    /\ backup_file' = Timestamp
    /\ IF Exists(canonical)
       THEN \/ /\ Timestamp \notin DOMAIN backups
               /\ backups' = With(backups, Timestamp, canonical)
               /\ canonical' = NoFile
               /\ pc' = "write"
               /\ UNCHANGED <<error, outcome>>
            \/ /\ Raise("stage")
               /\ UNCHANGED fsvars
       ELSE /\ pc' = "write"
            /\ UNCHANGED <<fsvars, error, outcome>>
    /\ UNCHANGED <<existing_rows, last_game_date, start_date, end_date,
                   updated_data, final_data, is_valid, verification_msg,
                   rows_added, ghost>>

\* lines 203-205: to_csv writes the file, or raises and leaves no file or
\* a partial one
Write ==
    /\ pc = "write"
    /\ \/ /\ canonical' = Csv(final_data.cols, final_data.rows)
          /\ pc' = "verify"
          /\ UNCHANGED <<error, outcome>>
       \/ /\ canonical' \in {NoFile, Garbage}
          /\ Raise("write")
    /\ UNCHANGED <<backups, locals, ghost>>

\* lines 214-217 and 269-273: delete csv_file if it is there, rename the
\* backup of this run back; either call can raise
\* a restore that deletes csv_file and forgets the rename
RestoreOk_SkipRename ==
    /\ canonical' = NoFile
    /\ UNCHANGED backups

\* a restore that copies the backup back and keeps it
RestoreOk_KeepBackup ==
    /\ canonical' = backups[backup_file]
    /\ UNCHANGED backups

RestoreOk ==
    /\ canonical' = backups[backup_file]
    /\ backups' = Without(backups, backup_file)
RemoveRaises ==
    /\ Exists(canonical)
    /\ UNCHANGED fsvars
RenameRaises ==
    /\ canonical' = NoFile
    /\ UNCHANGED backups

\* lines 207-221; pd.read_csv inside verify_csv_file may fail to read
Verify ==
    /\ pc = "verify"
    /\ \E readOk \in BOOLEAN :
         LET res == IF readOk THEN verify_csv_file(canonical)
                    ELSE <<FALSE, "Verification failed">>
         IN  /\ is_valid' = res[1]
             /\ verification_msg' = res[2]
             /\ IF res[1]
                THEN /\ pc' = "commit"
                     /\ UNCHANGED <<fsvars, error, outcome>>
                ELSE /\ error' = "verify"
                     /\ IF backup_file \in DOMAIN backups
                        THEN \/ RestoreOk /\ Exit("RolledBack")
                             \/ RemoveRaises /\ pc' = "except" /\ outcome' = outcome
                             \/ RenameRaises /\ pc' = "except" /\ outcome' = outcome
                        ELSE UNCHANGED fsvars /\ Exit("Invalid")
    /\ UNCHANGED <<existing_rows, last_game_date, start_date, end_date,
                   updated_data, final_data, backup_file, rows_added, ghost>>

\* a report that counts every row of the new file as added
RowsAdded_NoBaseline(new_rows, existing) == new_rows

\* line 225: rows_added = new_rows - existing_rows
RowsAdded(new_rows, existing) == new_rows - existing

\* a commit that leaves the backup of this run where it is
RemoveBackup_KeepsBackup ==
    /\ pc = "commit"
    /\ rows_added' = RowsAdded(Len(final_data.rows), existing_rows)
    /\ pc' = "prune"
    /\ UNCHANGED <<backups, error, outcome>>
    /\ UNCHANGED <<canonical, existing_rows, last_game_date, start_date,
                   end_date, updated_data, final_data, backup_file, is_valid,
                   verification_msg, ghost>>

\* lines 223-247: report (rows_added, "Update completed successfully!"),
\* then delete the backup of this run
RemoveBackup ==
    /\ pc = "commit"
    /\ rows_added' = RowsAdded(Len(final_data.rows), existing_rows)
    /\ IF backup_file \in DOMAIN backups
       THEN \/ /\ backups' = Without(backups, backup_file)
               /\ pc' = "prune"
               /\ UNCHANGED <<error, outcome>>
            \/ /\ Raise("unlink")
               /\ UNCHANGED backups
       ELSE /\ pc' = "prune"
            /\ UNCHANGED <<backups, error, outcome>>
    /\ UNCHANGED <<canonical, existing_rows, last_game_date, start_date,
                   end_date, updated_data, final_data, backup_file, is_valid,
                   verification_msg, ghost>>

\* The name of the backup made at time t.  Names differ in their timestamp
\* '%Y%m%d_%H%M%S' only, and the backups of the model are made within one
\* minute, at the seconds 8, 9, 10, ...: the name is the field %S, the
\* second in two digits.
\* a second written without its leading zero
BackupName_Unpadded(t) ==
    LET second == t + 7
    IN  IF second < 10 THEN <<second>> ELSE <<second \div 10, second % 10>>

\* lines 197-198: strftime('%S') of the time t
BackupName(t) ==
    LET second == t + 7
    IN  <<second \div 10, second % 10>>

\* a < b for two strings of digits, as list.sort() compares str
StrLess(a, b) ==
    \E i \in 1..Len(b) :
        /\ i - 1 <= Len(a)
        /\ \A j \in 1..(i - 1) : a[j] = b[j]
        /\ \/ i = Len(a) + 1
           \/ i <= Len(a) /\ a[i] < b[i]

\* x comes before y in backup_files after backup_files.sort()
SortsBefore(x, y) == StrLess(BackupName(x), BackupName(y))

\* backup_files[:-1]: one old backup more than line 258 keeps
ToDelete_KeepOneMore(names) ==
    IF Cardinality(names) > KeepBackups
    THEN {x \in names :
            Cardinality({y \in names : SortsBefore(x, y)}) >= KeepBackups + 1}
    ELSE {}

\* backup_files[:-2] of the sorted names when there are more than 2
ToDelete(names) ==
    IF Cardinality(names) > KeepBackups
    THEN {x \in names :
            Cardinality({y \in names : SortsBefore(x, y)}) >= KeepBackups}
    ELSE {}

\* a loop that passes over the delete that raised and goes on
FirstN_SkipOne(names, n) ==
    {x \in names : Cardinality({y \in names : SortsBefore(y, x)}) # n}

\* the first n names of a set in sorted order
FirstN(names, n) ==
    {x \in names : Cardinality({y \in names : SortsBefore(y, x)}) < n}

\* a failed delete that reaches the handler of line 265
DeleteRaised_Propagates == Raise("prune")

\* lines 262-263: the except of the pruning prints a warning and main
\* goes on to its end
DeleteRaised == Exit("Committed") /\ error' = "prune"

\* lines 249-263: the loop deletes in sorted order; a delete that raises
\* ends the loop (the except of line 262)
Prune ==
    /\ pc = "prune"
    /\ LET old == ToDelete(DOMAIN backups)
       IN  \E n \in 0..Cardinality(old) :
               /\ backups' = [x \in DOMAIN backups \ FirstN(old, n) |-> backups[x]]
               /\ IF n = Cardinality(old)
                  THEN Exit("Committed") /\ UNCHANGED error
                  ELSE DeleteRaised
    /\ UNCHANGED <<canonical, locals, ghost>>

\* a handler that never finds the backup of this run
HasOwnBackup_Never == FALSE

\* line 269: 'backup_file' in locals() and os.path.exists(backup_file)
HasOwnBackup == backup_file # Unbound /\ backup_file \in DOMAIN backups

\* a fallback that does not test for csv_file
FallbackApplies_NoGuard == DOMAIN backups # {}

\* line 278: backup_files and not os.path.exists(csv_file)
FallbackApplies == DOMAIN backups # {} /\ ~Exists(canonical)

\* lines 265-282; os.path.getctime of a renamed file depends on the file
\* system, so the latest backup is any of them
Except ==
    /\ pc = "except"
    /\ IF HasOwnBackup
       THEN \/ RestoreOk /\ Exit("RolledBack")
            \/ RemoveRaises /\ pc' = "fatal" /\ outcome' = "RollbackFailed"
            \/ RenameRaises /\ pc' = "fatal" /\ outcome' = "RollbackFailed"
       ELSE IF FallbackApplies
            THEN \E latest_backup \in DOMAIN backups :
                    \/ /\ ~Exists(canonical)
                       /\ canonical' = backups[latest_backup]
                       /\ backups' = Without(backups, latest_backup)
                       /\ Exit("Aborted")
                    \/ /\ UNCHANGED fsvars
                       /\ pc' = "fatal" /\ outcome' = "RollbackFailed"
            ELSE UNCHANGED fsvars /\ Exit("Aborted")
    /\ UNCHANGED <<locals, error, ghost>>

Next ==
    \/ CheckExists
    \/ ReadDataset
    \/ Gate
    \/ Window
    \/ Fetch
    \/ CombineStep
    \/ SortStep
    \/ Stage
    \/ Write
    \/ Verify
    \/ RemoveBackup
    \/ Prune
    \/ Except

Spec == Init /\ [][Next]_vars

----------------------------------------------------------------------------
(* The script run again.                                                   *)

MaxRuns == 2

\* lines 284-285 and 96-100: main() begins again, with fresh locals, on the
\* same day
StartRun ==
    /\ run' = run + 1
    /\ prevOutcome' = outcome
    /\ pc' = "start"
    /\ existing_rows' = 0
    /\ last_game_date' = None
    /\ start_date' = None
    /\ end_date' = None
    /\ updated_data' = NoFrame
    /\ final_data' = NoFrame
    /\ backup_file' = Unbound
    /\ is_valid' = FALSE
    /\ verification_msg' = ""
    /\ rows_added' = 0
    /\ error' = "none"
    /\ outcome' = "running"
    /\ pre' = canonical
    /\ preBackups' = backups
    /\ killedAt' = "none"
    /\ UNCHANGED <<today, fsvars, other>>

\* the script is started again right after a run ended
RunAgain ==
    /\ pc \in {"exit", "fatal"}
    /\ run < MaxRuns
    /\ StartRun

NextTwo ==
    \/ Next
    \/ RunAgain

SpecTwo == Init /\ [][NextTwo]_vars

----------------------------------------------------------------------------
(* The process killed, and the script run after that.                      *)

\* The process is killed and no handler runs: between two steps of main
\* after the staging of lines 196-201 or on entry to the handler of line
\* 265, which leaves the files as they are, or inside to_csv of line 205,
\* which leaves a partial file at csv_file.  (Killed before line 200 the
\* process has touched no file.)
Kill ==
    /\ pc \in {"write", "verify", "commit", "prune", "except"}
    /\ \/ killedAt' = pc /\ UNCHANGED fsvars
       \/ /\ pc = "write"
          /\ killedAt' = "to_csv"
          /\ canonical' = Garbage
          /\ UNCHANGED backups
    /\ pc' = "killed"
    /\ outcome' = "Killed"
    /\ UNCHANGED <<locals, error, today, pre, preBackups, run, prevOutcome,
                   other>>

\* the script is started again after the process was killed
RunAfterKill ==
    /\ pc = "killed"
    /\ run < MaxRuns
    /\ StartRun

\* the script is started again after a run that found no file at csv_file
\* (the scheduled task of the next day, or the analyst trying again)
RunAfterNoFile ==
    /\ pc = "exit"
    /\ outcome = "NoFile"
    /\ run < MaxRuns
    /\ StartRun

NextCrash ==
    \/ Next
    \/ Kill
    \/ RunAfterKill
    \/ RunAfterNoFile

\* the runs of one day, on which every persisted file with a watermark is
\* due for an update, with at most one backup of an earlier run
InitCrash == Init /\ today = <<2025, 6, 15>> /\ Len(backups) <= 1

SpecCrash == InitCrash /\ [][NextCrash]_vars

----------------------------------------------------------------------------
(* A second process running main() on the same csv_file while the first    *)
(* runs.  Its steps before line 196 only read; they are one step.  It      *)
(* makes its backup in the second of the first process or in the next.     *)

\* what pyb.statcast returns to the second process: 40 rows or 39 rows of
\* 2025-06-01
OtherFetches ==
    { Frame(AllColumns, Block(<<2025, 6, 1>>, 2, 40, 2)),
      Frame(AllColumns, Block(<<2025, 6, 1>>, 2, 39, 2)) }

\* an os.rename that replaces an existing destination
DestBlocksRename_Replaces(name, files) == FALSE

\* line 200, os.rename on Windows: it raises when the destination exists
DestBlocksRename(name, files) == name \in DOMAIN files

OtherUnchanged ==
    UNCHANGED <<pc, locals, error, outcome, today, pre, preBackups, run,
                prevOutcome, killedAt>>

\* lines 102-191 of the second process: it reads csv_file, passes the gate,
\* fetches, merges, sorts and deduplicates
OtherMerge ==
    /\ other.pc = "idle"
    /\ Readable(canonical)
    /\ MergeColumns \subseteq canonical.cols
    /\ LET lgd == get_last_game_date(canonical)
           start == WindowStart(lgd, today)
       IN  /\ ~GateSkips(lgd, today)
           /\ \E frame \in OtherFetches :
                 /\ InWindow(frame, start, WindowEnd(today))
                 /\ other' = [other EXCEPT
                       !.pc = "stage",
                       !.final_data =
                           SortDedup(Combine(Frame(canonical.cols, canonical.rows),
                                             frame, start, today))]
    /\ UNCHANGED fsvars
    /\ OtherUnchanged

\* lines 196-201 of the second process
OtherStage ==
    /\ other.pc = "stage"
    /\ \E t \in {Timestamp, Timestamp + 1} :
         IF Exists(canonical)
         THEN IF DestBlocksRename(t, backups)
              THEN /\ other' = [other EXCEPT !.pc = "except", !.backup_file = t,
                                             !.error = "stage"]
                   /\ UNCHANGED fsvars
              ELSE /\ other' = [other EXCEPT !.pc = "write", !.backup_file = t]
                   /\ backups' = With(backups, t, canonical)
                   /\ canonical' = NoFile
         ELSE /\ other' = [other EXCEPT !.pc = "write", !.backup_file = t]
              /\ UNCHANGED fsvars
    /\ OtherUnchanged

\* line 205 of the second process
OtherWrite ==
    /\ other.pc = "write"
    /\ canonical' = Csv(other.final_data.cols, other.final_data.rows)
    /\ other' = [other EXCEPT !.pc = "verify"]
    /\ UNCHANGED backups
    /\ OtherUnchanged

\* lines 207-247 of the second process: it verifies the file now at
\* csv_file, restores its backup when that fails and deletes it otherwise
\* (with at most three backup files its pruning deletes nothing)
OtherVerify ==
    /\ other.pc = "verify"
    /\ IF verify_csv_file(canonical)[1]
       THEN /\ other' = [other EXCEPT !.pc = "committed"]
            /\ backups' = Without(backups, other.backup_file)
            /\ UNCHANGED canonical
       ELSE IF other.backup_file \in DOMAIN backups
            THEN /\ other' = [other EXCEPT !.pc = "restored", !.error = "verify"]
                 /\ canonical' = backups[other.backup_file]
                 /\ backups' = Without(backups, other.backup_file)
            ELSE /\ other' = [other EXCEPT !.pc = "invalid", !.error = "verify"]
                 /\ UNCHANGED fsvars
    /\ OtherUnchanged

\* lines 265-282 of the second process
OtherExcept ==
    /\ other.pc = "except"
    /\ IF other.backup_file \in DOMAIN backups
       THEN /\ other' = [other EXCEPT !.pc = "restored"]
            /\ canonical' = backups[other.backup_file]
            /\ backups' = Without(backups, other.backup_file)
       ELSE IF FallbackApplies
            THEN \E latest_backup \in DOMAIN backups :
                    /\ other' = [other EXCEPT !.pc = "aborted"]
                    /\ canonical' = backups[latest_backup]
                    /\ backups' = Without(backups, latest_backup)
            ELSE /\ other' = [other EXCEPT !.pc = "aborted"]
                 /\ UNCHANGED fsvars
    /\ OtherUnchanged

NextConcurrent ==
    \/ Next
    \/ OtherMerge
    \/ OtherStage
    \/ OtherWrite
    \/ OtherVerify
    \/ OtherExcept

\* the runs of one day with at most one backup of an earlier run
InitConcurrent == Init /\ today = <<2025, 6, 15>> /\ Len(backups) <= 1

SpecConcurrent == InitConcurrent /\ [][NextConcurrent]_vars

----------------------------------------------------------------------------
(* verify_csv_file on its own, called on any candidate file.               *)

\* row counts around the floor of line 88
VerifyRowCounts == {0, 1, MinRowCount - 1, MinRowCount, MinRowCount + 1}

\* headers: every column, every column but one, the columns line 75 names
VerifyColumnSets ==
    {AllColumns, RequiredColumns} \cup {AllColumns \ {c} : c \in AllColumns}

\* a game_date no calendar has
BadDate == <<2025, 2, 30>>

\* n rows, the last of them with the bad date when bad
VerifyRows(n, bad) ==
    [i \in 1..n |->
        IF bad /\ i = n
        THEN Row(BadDate, 1, ((i - 1) \div 10) + 1, ((i - 1) % 10) + 1, 0)
        ELSE Row(<<2025, 6, 1>>, 1, ((i - 1) \div 10) + 1, ((i - 1) % 10) + 1, 0)]

VerifyCandidates ==
    {Garbage, NoFile} \cup
    {Csv(cols, VerifyRows(n, bad)) :
        cols \in VerifyColumnSets, n \in VerifyRowCounts, bad \in BOOLEAN}

InitVerify ==
    /\ today = <<2025, 6, 15>>
    /\ canonical \in VerifyCandidates
    /\ backups = <<>>
    /\ pc = "call"
    /\ existing_rows = 0
    /\ last_game_date = None
    /\ start_date = None
    /\ end_date = None
    /\ updated_data = NoFrame
    /\ final_data = NoFrame
    /\ backup_file = Unbound
    /\ is_valid = FALSE
    /\ verification_msg = ""
    /\ rows_added = 0
    /\ error = "none"
    /\ outcome = "running"
    /\ pre = canonical
    /\ preBackups = backups
    /\ run = 1
    /\ prevOutcome = "none"
    /\ killedAt = "none"
    /\ other = OtherOff

\* is_valid, verification_msg = verify_csv_file(csv_file)
VerifyFile ==
    /\ pc = "call"
    /\ is_valid' = verify_csv_file(canonical)[1]
    /\ verification_msg' = verify_csv_file(canonical)[2]
    /\ pc' = "returned"
    /\ UNCHANGED <<fsvars, existing_rows, last_game_date, start_date, end_date,
                   updated_data, final_data, backup_file, rows_added, error,
                   outcome, ghost>>

NextVerify == VerifyFile

SpecVerify == InitVerify /\ [][NextVerify]_vars

----------------------------------------------------------------------------
(* Properties of a run.                                                    *)

\* the file to_csv writes from final_data
Written == Csv(final_data.cols, final_data.rows)

\* the fetch returned, with no rows
FetchedNothing ==
    /\ pc \notin {"start", "read", "gate", "window", "fetch"}
    /\ start_date # None
    /\ error # "fetch"
    /\ updated_data.rows = <<>>

\* the persisted rows before the window: game_date < fetchStart
PreservedRows ==
    LET Older(r) == StrGreater(start_date, r.game_date)
    IN  SelectSeq(pre.rows, Older)

\* C1 as stated: every run that ends without a failed restore leaves a file
\* at the canonical path, the merged and verified dataset when the run
\* committed and the pre-run dataset otherwise.
C1_Original ==
    pc = "exit" =>
        /\ Exists(canonical)
        /\ outcome = "Committed" => canonical = Written /\ is_valid
        /\ outcome # "Committed" => canonical = pre

\* C1, amended: a run that starts with a file at the canonical path and ends
\* without a failed restore leaves there the merged dataset that passed
\* verification when it committed, and the pre-run file otherwise; a run
\* that starts with no file there exits at once and leaves none.
C1_CanonicalAtExit ==
    pc = "exit" =>
        IF Exists(pre)
        THEN /\ Exists(canonical)
             /\ outcome = "Committed" =>
                    canonical = Written /\ is_valid /\ verify_csv_file(canonical)[1]
             /\ outcome # "Committed" => canonical = pre
        ELSE ~Exists(canonical) /\ outcome = "NoFile"

\* a run committed a dataset that differs from the pre-run one
C1_Witness ==
    pc = "exit" /\ outcome = "Committed" /\ Exists(pre) /\ canonical # pre

\* C2: when verification of the written file fails, the run ends with the
\* canonical file as it was before the run: the written file is gone and
\* the backup of this run is back at the canonical path.  (A run whose
\* restore itself raises twice does not end: it stops in "fatal".)
C2_VerifyFailureRestores ==
    (pc = "exit" /\ error = "verify") =>
        /\ outcome = "RolledBack"
        /\ canonical = pre
        /\ backup_file \notin DOMAIN backups
        /\ backups = preBackups

\* a 99-row merge was written, failed verification and was rolled back
C2_Witness ==
    /\ pc = "exit" /\ error = "verify" /\ ~is_valid
    /\ Len(final_data.rows) = MinRowCount - 1
    /\ Written # pre

\* C3: when writing the merged dataset fails after the canonical file was
\* staged, the run restores in the same way: a partial file is removed and
\* the backup renamed back, so the canonical file is the pre-run one.  (A
\* run whose restore itself raises stops in "fatal".)
C3_WriteFailureRestores ==
    (pc = "exit" /\ error = "write") =>
        /\ outcome = "RolledBack"
        /\ canonical = pre
        /\ backup_file \notin DOMAIN backups
        /\ backups = preBackups

\* a write failed after staging and the run ended restored
C3_Witness ==
    pc = "exit" /\ error = "write" /\ outcome = "RolledBack" /\ Exists(pre)

\* C4: a fetch error ends the run before any file is touched: the canonical
\* file and every backup are as before the run, older backups included.
C4_FetchErrorTouchesNothing ==
    error = "fetch" =>
        /\ canonical = pre
        /\ backups = preBackups
        /\ backup_file = Unbound
        /\ pc \in {"except", "exit"}
        /\ pc = "exit" => outcome = "Aborted"

\* a fetch error ended a run that had older backups beside the file
C4_Witness ==
    /\ pc = "exit" /\ error = "fetch"
    /\ Cardinality(DOMAIN preBackups) = MaxOldBackups

\* C5 as stated: after a fetch of zero rows the run still commits, and the
\* canonical dataset is the preserved rows, with none in the window.
C5_Original ==
    (FetchedNothing /\ pc = "exit") =>
        /\ outcome = "Committed"
        /\ canonical.rows = PreservedRows

\* C5, amended: a fetch of zero rows ends the run at once, with no merge,
\* backup or write: the canonical file and the backups are those of before
\* the run, so the persisted rows inside the window stay.
C5_EmptyFetchEndsRun ==
    FetchedNothing =>
        /\ pc = "exit" /\ outcome = "NoData"
        /\ canonical = pre
        /\ backups = preBackups
        /\ final_data = NoFrame /\ backup_file = Unbound

\* an empty fetch ended a run whose file has rows inside the window
C5_Witness ==
    /\ FetchedNothing /\ pc = "exit"
    /\ PreservedRows # <<>>
    /\ Len(PreservedRows) < Len(canonical.rows)

\* the rows are in ascending order of (game_date, game_pk, at_bat_number,
\* pitch_number), the dates compared as calendar dates
Ascending(rows) ==
    \A i \in 1..(Len(rows) - 1) :
        LET a == rows[i]
            b == rows[i + 1]
        IN  \/ StrGreater(b.game_date, a.game_date)
            \/ /\ b.game_date = a.game_date
               /\ \/ a.game_pk < b.game_pk
                  \/ /\ a.game_pk = b.game_pk
                     /\ \/ a.at_bat_number < b.at_bat_number
                        \/ /\ a.at_bat_number = b.at_bat_number
                           /\ a.pitch_number <= b.pitch_number

\* no two rows share (game_pk, at_bat_number, pitch_number)
UniqueKeys(rows) ==
    Cardinality({Key(rows[i]) : i \in 1..Len(rows)}) = Len(rows)

\* C6 as stated: for every fetchStart, the season start included, the
\* merge before deduplication is the persisted rows with game_date <
\* fetchStart followed by the fetched rows.
C6_Original ==
    pc = "sort" => final_data.rows = PreservedRows \o updated_data.rows

\* C7: after a merge no two rows of the output share the composite key,
\* also when the fetch repeats keys; so for the file a run commits.
C7_NoDuplicateKeys ==
    /\ pc = "stage" => UniqueKeys(final_data.rows)
    /\ outcome = "Committed" => UniqueKeys(canonical.rows)

\* a merge whose fetch repeated a key
C7_Witness ==
    /\ pc = "stage"
    /\ ~UniqueKeys(updated_data.rows)
    /\ final_data.rows # <<>>

\* C8: after a merge the output is in ascending order of (game_date,
\* game_pk, at_bat_number, pitch_number), the deduplication after the sort
\* included; so is the file a run commits.
C8_SortedOutput ==
    /\ pc = "stage" => Ascending(final_data.rows)
    /\ outcome = "Committed" => Ascending(canonical.rows)

\* a committed file from an unsorted fetch that repeated a key
C8_Witness ==
    /\ outcome = "Committed"
    /\ ~Ascending(updated_data.rows)
    /\ ~UniqueKeys(updated_data.rows)
    /\ canonical = Written

\* the watermark: the latest game_date of the pre-run file
Watermark == last_game_date

\* C9: with a watermark, fetchStart is the later of the season start and
\* the watermark minus the lookback days, and fetchEnd is today; the
\* watermark 2025-06-01 gives 2025-05-18.
C9_Window ==
    (pc \notin {"start", "read", "gate", "window"} /\ start_date # None
        /\ Watermark # None) =>
        LET season == <<today[1], 3, 20>>
            back   == Strptime(Watermark) - LOOKBACK_DAYS
        IN  /\ end_date = today
            /\ ~StrGreater(season, start_date)
            /\ Strptime(start_date) >= back
            /\ start_date = season \/ Strptime(start_date) = back
            /\ (Watermark = <<2025, 6, 1>> /\ today[1] = 2025) =>
                    start_date = <<2025, 5, 18>>
            /\ \A i \in 1..Len(pre.rows) :
                    ~StrGreater(pre.rows[i].game_date, Watermark)

\* the window of the watermark 2025-06-01
C9_Witness ==
    /\ pc = "fetch"
    /\ Watermark = <<2025, 6, 1>>
    /\ start_date = <<2025, 5, 18>>
    /\ end_date = <<2025, 6, 8>>

\* whole days from the watermark to today
DaysSince == Strptime(today) - Strptime(Watermark)

\* C10: the gate lets the run go on when there is no watermark, and
\* otherwise exactly when today is at least MIN_DAYS_BETWEEN_UPDATES whole
\* days after the watermark; it changes no file.
C10_Gate ==
    /\ (pc \notin {"start", "read", "gate"} /\ outcome # "NoFile") =>
           (outcome = "Skipped" <=>
                (Watermark # None /\ DaysSince < MIN_DAYS_BETWEEN_UPDATES))
    /\ (pc = "window" \/ outcome = "Skipped") =>
           /\ canonical = pre
           /\ backups = preBackups
    /\ outcome = "Skipped" => pc = "exit"

\* the gate let a run go on exactly MIN_DAYS_BETWEEN_UPDATES days after
\* the watermark
C10_Witness ==
    /\ pc = "window"
    /\ Watermark # None
    /\ DaysSince = MIN_DAYS_BETWEEN_UPDATES

\* C11 as stated: a second run on the same day, right after a run that
\* committed, ends at the gate as skipped and leaves every file as it was.
C11_Original ==
    (run = 2 /\ prevOutcome = "Committed") =>
        /\ pc \in {"start", "read", "gate", "exit"}
        /\ pc = "exit" => outcome = "Skipped"
        /\ canonical = pre
        /\ backups = preBackups

\* C12 as stated: a run that finds no file at csv_file is not declined; it
\* is an initial load of the window from the season start to today.
C12_Original ==
    (~Exists(pre) /\ pc = "exit") =>
        /\ outcome # "NoFile"
        /\ start_date = get_season_start_date(today)
        /\ end_date = today

\* C12, amended: a run that finds no file at csv_file is declined at the
\* existence check: it computes no window, fetches nothing, stages no
\* backup, writes no file and leaves the backup files as they were.
C12_NoFileDeclines ==
    ~Exists(pre) =>
        /\ pc \in {"start", "exit"}
        /\ pc = "exit" => outcome = "NoFile"
        /\ ~Exists(canonical)
        /\ backups = preBackups
        /\ start_date = None /\ end_date = None
        /\ updated_data = NoFrame /\ final_data = NoFrame
        /\ backup_file = Unbound

C12_Witness ==
    /\ ~Exists(pre)
    /\ pc = "exit" /\ outcome = "NoFile"
    /\ DOMAIN backups # {}

\* the file found at csv_file cannot be parsed
Unparseable(f) == Exists(f) /\ ~Readable(f)

\* the file found at csv_file parses and has no game_date column
LacksGameDate(f) == Readable(f) /\ "game_date" \notin f.cols

C14_Original ==
    outcome = "Committed" => Cardinality(DOMAIN backups) <= KeepBackups

\* C14, amended: after a run that ends Committed with no delete of the
\* pruning having raised, at most KeepBackups backup files remain, they
\* are backups of earlier runs, and every deleted one is older than every
\* remaining one; when a delete raised, the backups of earlier runs that
\* the loop had not reached remain as well.
C14_Retention ==
    outcome = "Committed" =>
        /\ DOMAIN backups \subseteq DOMAIN preBackups
        /\ \A x \in DOMAIN preBackups \ DOMAIN backups :
               \A y \in DOMAIN backups : x < y
        /\ error # "prune" => Cardinality(DOMAIN backups) <= KeepBackups
        /\ Cardinality(DOMAIN preBackups) >= KeepBackups =>
               Cardinality(DOMAIN backups) >= KeepBackups

C14_Witness ==
    /\ outcome = "Committed" /\ error = "none"
    /\ Cardinality(DOMAIN preBackups) > KeepBackups
    /\ Cardinality(DOMAIN backups) = KeepBackups

\* C15: a delete that raises while old backups are pruned does not fail
\* the run: the run ends normally as Committed, csv_file holds the merged
\* dataset that passed verification, the backup of this run is gone and
\* nothing is restored.
C15_PruneFailureHarmless ==
    error = "prune" =>
        /\ pc = "exit" /\ outcome = "Committed"
        /\ is_valid
        /\ canonical = Written
        /\ verify_csv_file(canonical)[1]
        /\ backup_file \notin DOMAIN backups

C15_Witness ==
    /\ error = "prune"
    /\ pc = "exit"
    /\ canonical # pre
    /\ Cardinality(DOMAIN backups) > KeepBackups

\* line 241 has printed "Update completed successfully!"
ReportedSuccess == is_valid /\ pc # "commit"

\* the run ended and the handler of line 265 could not put the pre-run file
\* back: its backup is still beside a canonical path that does not hold it
RestoreFailed ==
    /\ pc \in {"exit", "fatal"}
    /\ error # "none"
    /\ canonical # pre
    /\ HasOwnBackup

\* C16 as stated: a run ends with an uncaught error exactly when restoring
\* the backup failed, every other failure ends the run normally, and a run
\* whose restore failed has not reported success.
C16_Original ==
    /\ pc = "fatal" <=> RestoreFailed
    /\ (pc = "exit" /\ error \in {"fetch", "merge", "write", "verify"}) =>
           outcome \in {"Aborted", "RolledBack", "Invalid"}
    /\ RestoreFailed => ~ReportedSuccess

\* the part of C16 that holds
C16_FatalIffRestoreFailed ==
    /\ pc = "fatal" <=> RestoreFailed
    /\ pc = "fatal" <=> outcome = "RollbackFailed"
    /\ (pc = "exit" /\ error \in {"fetch", "merge", "write", "verify"}) =>
           outcome \in {"Aborted", "RolledBack", "Invalid"}

\* every game_date of the file parses
DatesParse(f) == \A i \in 1..Len(f.rows) : ParsesAsDate(f.rows[i].game_date)

C18_Original ==
    (pc = "returned" /\ Readable(canonical)
        /\ \E c \in AllColumns : c \notin canonical.cols) => ~is_valid

\* C18, amended: the verifier rejects a file that lacks any one of
\* pitch_type, game_date, player_name, batter, pitcher, and does not look
\* for game_pk, at_bat_number, pitch_number: a file with rows that lacks
\* one of the five is rejected as "Missing required columns", and a file
\* that lacks only key columns is judged on the other checks alone.
C18_RequiredColumns ==
    (pc = "returned" /\ Readable(canonical)) =>
        /\ (\E c \in RequiredColumns : c \notin canonical.cols) =>
               /\ ~is_valid
               /\ canonical.rows # <<>> =>
                      verification_msg = "Missing required columns"
        /\ (RequiredColumns \subseteq canonical.cols) =>
               (is_valid <=> verify_csv_file(Csv(AllColumns, canonical.rows))[1])

C18_Witness ==
    /\ pc = "returned"
    /\ ~is_valid
    /\ "batter" \notin canonical.cols
    /\ Len(canonical.rows) = MinRowCount
    /\ DatesParse(canonical)

\* C19 as stated: a committed run reports as rows added the number of rows
\* it fetched, whatever number of persisted rows the merge discarded.
C19_Original ==
    outcome = "Committed" => rows_added = Len(updated_data.rows)

\* C19, amended: the rows added that a run reports is the net change of
\* the row count, the rows of the new file less the rows of the pre-run
\* file; it is at most the number of fetched rows and is negative when the
\* merge discarded more rows than the fetch brought.
C19_NetChange ==
    ReportedSuccess =>
        /\ rows_added = Len(final_data.rows) - Len(pre.rows)
        /\ rows_added <= Len(updated_data.rows)
        /\ outcome = "Committed" =>
               rows_added = Len(canonical.rows) - Len(pre.rows)

C19_Witness ==
    /\ outcome = "Committed"
    /\ Len(updated_data.rows) >= 40
    /\ Len(PreservedRows) = 60
    /\ rows_added < 0

\* the rows the merge hands to the sort: final_data of line 178
MergedRows ==
    Combine(Frame(pre.cols, pre.rows), updated_data, start_date, today).rows

\* among the rows of a sequence with the key of r, the place of the one
\* that sorts last: the latest game_date, and of equal ones the later row
LastOfKey(rows, r) ==
    LET same == {j \in 1..Len(rows) : Key(rows[j]) = Key(r)}
    IN  CHOOSE j \in same :
            \A k \in same :
                \/ StrGreater(rows[j].game_date, rows[k].game_date)
                \/ rows[j].game_date = rows[k].game_date /\ k <= j

\* C20: of the merged rows that share a composite key the deduplication
\* keeps exactly the one that is last in sort order, and every key of the
\* merge is kept; when a preserved row and a fetched row share a key the
\* row kept is the fetched one.
C20_KeepsLast ==
    pc = "stage" =>
        LET merged == MergedRows
            kept == final_data.rows
        IN  /\ \A i \in 1..Len(kept) : kept[i] = merged[LastOfKey(merged, kept[i])]
            /\ {Key(kept[i]) : i \in 1..Len(kept)} =
                   {Key(merged[j]) : j \in 1..Len(merged)}
            /\ StrGreater(start_date, get_season_start_date(today)) =>
                   \A i \in 1..Len(kept) :
                       ((\E p \in 1..Len(PreservedRows) :
                             Key(PreservedRows[p]) = Key(kept[i]))
                        /\ (\E u \in 1..Len(updated_data.rows) :
                             Key(updated_data.rows[u]) = Key(kept[i])))
                       => /\ \E u \in 1..Len(updated_data.rows) :
                                updated_data.rows[u] = kept[i]
                          /\ \A p \in 1..Len(PreservedRows) :
                                PreservedRows[p] # kept[i]

\* a preserved row and a fetched row share the key (1, 1, 1)
C20_Witness ==
    /\ pc = "stage"
    /\ \E p \in 1..Len(PreservedRows) : Key(PreservedRows[p]) = <<1, 1, 1>>
    /\ \E u \in 1..Len(updated_data.rows) : Key(updated_data.rows[u]) = <<1, 1, 1>>
    /\ StrGreater(start_date, get_season_start_date(today))
    /\ \E i \in 1..Len(final_data.rows) :
          Key(final_data.rows[i]) = <<1, 1, 1>> /\ final_data.rows[i].v = 1

\* C21: a process killed after csv_file was renamed to the backup of the
\* run and before the new file is written leaves no file at csv_file and
\* the pre-run dataset, whole, in the backup of the run, beside the backups
\* of earlier runs; killed inside the write, the backup holds it as well.
C21_KillAfterStage ==
    killedAt \in {"write", "to_csv"} =>
        /\ pc = "killed"
        /\ killedAt = "write" => ~Exists(canonical)
        /\ killedAt = "to_csv" => canonical = Garbage
        /\ backup_file \in DOMAIN backups
        /\ backups[backup_file] = pre
        /\ Without(backups, backup_file) = preBackups

C21_Witness ==
    /\ killedAt = "write"
    /\ run = 1
    /\ Len(pre.rows) >= MinRowCount
    /\ ~Exists(canonical)
    /\ preBackups # <<>>

\* the backups of earlier runs that this run deleted
Deleted == DOMAIN preBackups \ DOMAIN backups

\* C22 as stated: when a delete raises during pruning, that backup alone
\* stays: every other backup older than the KeepBackups newest is deleted.
C22_Original ==
    error = "prune" => Cardinality(DOMAIN backups) <= KeepBackups + 1

\* C22, amended: when a delete raises during pruning the loop ends there:
\* the backups deleted are older than every backup left, so the backup
\* whose delete raised and every deletable backup after it are left, more
\* than KeepBackups in all, and the run ends Committed.
C22_FailedDeleteEndsLoop ==
    error = "prune" =>
        /\ outcome = "Committed"
        /\ Cardinality(DOMAIN backups) > KeepBackups
        /\ DOMAIN backups \subseteq DOMAIN preBackups
        /\ \A x \in Deleted : \A y \in DOMAIN backups : x < y

\* the first delete raised and a second deletable backup is left with it
C22_Witness ==
    /\ error = "prune"
    /\ pc = "exit"
    /\ Deleted = {}
    /\ Cardinality(DOMAIN backups) = KeepBackups + 2

\* C23: pruning leaves the KeepBackups most recently made backups and
\* deletes the others: the order of the names, compared as strings, is the
\* order in which the backups were made, and every backup left was made
\* later than every backup deleted.
C23_PruneKeepsNewest ==
    outcome = "Committed" =>
        /\ \A x, y \in DOMAIN preBackups : SortsBefore(x, y) <=> x < y
        /\ \A x \in Deleted : \A y \in DOMAIN backups : x < y
        /\ error = "none" =>
               DOMAIN backups =
                   {x \in DOMAIN preBackups :
                       Cardinality({y \in DOMAIN preBackups : y > x}) < KeepBackups}

\* the names "08" and "09" deleted, "10" and "11" left
C23_Witness ==
    /\ outcome = "Committed" /\ error = "none"
    /\ Deleted = {1, 2}
    /\ DOMAIN backups = {3, 4}
    /\ BackupName(2)[1] = 0 /\ BackupName(3)[1] = 1

\* C24: after a run that ends normally the backup the run made is no longer
\* among the backup files: on a commit it was deleted and csv_file holds
\* the new dataset, on a rollback it was renamed back to csv_file; and a
\* run that does not commit leaves the backups of earlier runs as they
\* were, none deleted, renamed or added.
C24_BackupLifecycle ==
    pc = "exit" =>
        /\ backup_file # Unbound => backup_file \notin DOMAIN backups
        /\ outcome = "Committed" => canonical = Written
        /\ outcome = "RolledBack" => canonical = pre
        /\ outcome # "Committed" => backups = preBackups
        /\ outcome = "Committed" => DOMAIN backups \subseteq DOMAIN preBackups

\* a rollback after a failed verification, with backups of earlier runs
C24_Witness ==
    /\ pc = "exit" /\ outcome = "RolledBack"
    /\ error = "verify"
    /\ backup_file # Unbound
    /\ Cardinality(DOMAIN preBackups) > KeepBackups

\* no step replaces the content of a backup file that exists: a backup is
\* made, renamed back or deleted, never staged over
NoStagingOver ==
    \A t \in DOMAIN backups :
        t \in DOMAIN backups' => backups'[t] = backups[t]

\* C25 as stated: a second run that stages under the name of the first
\* run's backup stages over it: its rename goes through.
C25_Original ==
    (other.pc \notin {"idle", "stage"} /\ other.backup_file = Timestamp) =>
        other.error # "stage"

\* C25, amended: with two interleaved runs no run stages over a backup
\* that exists (the rename of a second run under the same name raises, and
\* that run then restores the first run's backup as its own), but a second
\* run stages the file the first run has just written under another name
\* and its rollback restores that file, which is not the dataset from
\* before either run; with no second process a rollback restores the
\* pre-run dataset and the backup of the run holds it.
C25_Interleaving ==
    /\ [][NoStagingOver]_vars
    /\ [](other.error = "stage" =>
            other.backup_file \in DOMAIN preBackups \cup {Timestamp})
    /\ [](other.pc = "idle" =>
            /\ outcome = "RolledBack" => canonical = pre
            /\ HasOwnBackup => backups[backup_file] = pre)

\* the first run has written its file and not yet verified it; the second
\* run, under another backup name, has staged that file, failed its own
\* verification and restored it
C25_Witness ==
    /\ pc = "verify"
    /\ other.pc = "restored" /\ other.error = "verify"
    /\ other.backup_file # backup_file
    /\ canonical = Written
    /\ canonical # pre

----------------------------------------------------------------------------
\* C26 as stated: once verification has passed and success has been reported
\* (line 241), the canonical file holds the verified merged dataset for the
\* rest of the run, whatever fails in the deletion of the run's backup
\* (line 247) or in the pruning of old backups (lines 253-263).
C26_Original ==
    ReportedSuccess => canonical = Written

----------------------------------------------------------------------------
\* C27: a run that finds no file at csv_file, as after a kill between the
\* staging and the write, ends at the existence check of lines 102-105: it
\* restores no backup, binds no backup name and creates, changes or deletes
\* no file, so the path is still missing when the next run starts.
C27_MissingStaysMissing ==
    ~Exists(pre) =>
        /\ pc \in {"start", "exit"}
        /\ pc = "exit" => outcome = "NoFile"
        /\ error = "none"
        /\ backup_file = Unbound
        /\ ~Exists(canonical)
        /\ backups = preBackups

C27_Witness ==
    /\ run > 1
    /\ prevOutcome = "Killed"
    /\ ~Exists(pre)
    /\ pc = "exit"
    /\ outcome = "NoFile"
    /\ ~Exists(canonical)
    /\ \E t \in DOMAIN backups : Len(backups[t].rows) >= MinRowCount

----------------------------------------------------------------------------
\* C28 as stated: whatever the watermark and the current date, the fetch
\* window of lines 127-138 has fetchStart <= fetchEnd, also on a day before
\* March 20 of the current year with a watermark of an earlier year.
C28_Original ==
    (Watermark # None /\ start_date # None /\ end_date # None) =>
        ~StrGreater(start_date, end_date)

====
